---------------------------- MODULE Spec2Model ----------------------------
(***************************************************************************)
(* State-machine model of the Fish game backend (GameHandler and the      *)
(* in-memory session store).  Cards are written rank+suit letter: "2H" is  *)
(* the two of hearts, "10S" the ten of spades.  Arrays are sequences;     *)
(* JavaScript objects keyed by name are functions whose domain is the set  *)
(* of keys present.  currentTurn is 0-based as in the source.              *)
(***************************************************************************)
EXTENDS Integers, Sequences, FiniteSets, TLC

(* ------------------------------ bounds -------------------------------- *)

\* askForCard / makeClaim calls that reach a session, in a game played
\* move by move.
MaxMoves == 2

\* Deletion timers pending for one game code, in a game played to its end
\* (every makeClaim that finds eight or more half-suits claimed sets one).
MaxTimers == 2

(* -------------------------- program constants -------------------------- *)

MaxPlayers == 12

MinTeamPlayers == 4

EndTotal == 8

(* ------------------------------ helpers -------------------------------- *)

EmptyObj == [x \in {} |-> x]

Range(s) == {s[i] : i \in 1..Len(s)}

\* Array.prototype.includes
Includes(s, x) == \E i \in 1..Len(s) : s[i] = x

\* Array.prototype.indexOf (0-based, -1 when absent)
IndexOf(s, x) ==
  IF Includes(s, x) THEN (CHOOSE i \in 1..Len(s) : s[i] = x /\ \A j \in 1..(i-1) : s[j] # x) - 1
  ELSE -1

\* Array.prototype.filter with the predicate "is not in drop"
FilterOut(s, drop) == SelectSeq(s, LAMBDA c : c \notin drop)

\* players.filter((_, i) => i % 2 === r), i the 0-based index
RECURSIVE FilterParity(_, _, _)
FilterParity(s, i, r) ==
  IF s = <<>> THEN <<>>
  ELSE (IF i % 2 = r THEN <<Head(s)>> ELSE <<>>) \o FilterParity(Tail(s), i + 1, r)

\* Array.prototype.flat over a sequence of sequences
RECURSIVE Flat(_)
Flat(ss) == IF ss = <<>> THEN <<>> ELSE Head(ss) \o Flat(Tail(ss))

\* deck.slice(from, to) with 0-based, end-exclusive indices
Slice(s, from, to) ==
  LET hi == IF to > Len(s) THEN Len(s) ELSE to
  IN  IF from >= hi THEN <<>> ELSE SubSeq(s, from + 1, hi)

(* ------------------------------- deck ---------------------------------- *)

HalfSuitNames ==
  << "low-hearts", "high-hearts", "low-diamonds", "high-diamonds",
     "low-clubs", "high-clubs", "low-spades", "high-spades" >>

getHalfSuits ==
  [ n \in Range(HalfSuitNames) |->
      CASE n = "low-hearts"    -> << "2H", "3H", "4H", "5H", "6H", "7H" >>
        [] n = "high-hearts"   -> << "9H", "10H", "JH", "QH", "KH", "AH" >>
        [] n = "low-diamonds"  -> << "2D", "3D", "4D", "5D", "6D", "7D" >>
        [] n = "high-diamonds" -> << "9D", "10D", "JD", "QD", "KD", "AD" >>
        [] n = "low-clubs"     -> << "2C", "3C", "4C", "5C", "6C", "7C" >>
        [] n = "high-clubs"    -> << "9C", "10C", "JC", "QC", "KC", "AC" >>
        [] n = "low-spades"    -> << "2S", "3S", "4S", "5S", "6S", "7S" >>
        [] n = "high-spades"   -> << "9S", "10S", "JS", "QS", "KS", "AS" >> ]

createDeck == Flat([i \in 1..Len(HalfSuitNames) |-> getHalfSuits[HalfSuitNames[i]]])

(***************************************************************************)
(* array.sort(() => Math.random() - 0.5) leaves some permutation of the    *)
(* array: outcome k is the array rotated left by k places (0: as it was).  *)
(***************************************************************************)
Shuffles == {0, 1}

RandomSort(s, k) ==
  LET n == Len(s)
  IN  IF n = 0 THEN s ELSE [i \in 1..n |-> s[((i - 1 + k) % n) + 1]]

(* ---------------------------- input domains ---------------------------- *)

\* The names the clients use: the k-th player to join is AllNames[k].
AllNames ==
  << "Alice", "Bob", "Carol", "Dave", "Eve", "Frank", "Grace", "Heidi",
     "Ivan", "Judy", "Karl", "Liam", "Mona" >>

\* The names used in a game that is played.
Names == SubSeq(AllNames, 1, MinTeamPlayers)

Codes == {"G1"}

Conns == {1, 2}


(* ------------------------------- state --------------------------------- *)

VARIABLES
  games,    \* global.games: game code -> session object
  conns,    \* per connection: this.playerId, this.gameCode (Null until set)
  outbox,   \* what the last handled message made the handler send, in order
  timers,   \* pending setTimeout deletions: game code -> how many
  lastOp,   \* history: the inbound message handled last, and how it ended
  removed,  \* history: game code -> cards taken out of hands by claims
  deals,    \* history: game code -> how many times the session was dealt
  moves,    \* history: askForCard / makeClaim calls that reached a session,
            \* counted up to MaxMoves
  endings,  \* history: game code -> gameEnded messages sent for the session
            \* stored under the code, counted up to MaxTimers
  calls     \* per connection: the joinGame call suspended at an await, if any

vars == << games, conns, outbox, timers, lastOp, removed, deals, moves,
           endings, calls >>

Null == "null"

\* no handler of the connection is suspended
Idle == [pc |-> "idle"]

\* new Array(n): n empty slots, serialised as null
EmptySlots(n) == [i \in 1..n |-> Null]

\* getGameState: the stored object itself (handlers mutate it in place), or
\* null when there is none; Stored(code) is the handlers' test of the result
Stored(code) == code \in DOMAIN games

getGameState(code) == games[code]

\* global.games[gameCode] = gameState
storeGameState(code, gs) == (code :> gs) @@ games

Counted(n) == IF n < MaxMoves THEN n + 1 ELSE n

Ended(n) == IF n < MaxTimers THEN n + 1 ELSE n

TimersFor(code) == IF code \in DOMAIN timers THEN timers[code] ELSE 0

(* ------------------------------ messages ------------------------------- *)

ErrorMsg(text) == [type |-> "error", message |-> text]

\* this.send(data) on connection c
Sent(c, msgs) == [i \in 1..Len(msgs) |-> [to |-> c, msg |-> msgs[i]]]

\* broadcast(gameCode, data): sends on the current connection only
broadcast(data) == << data >>

HasHand(gs, p) == p \in DOMAIN gs.hands

\* getPlayerView throws when it reads .length of a missing hand
ViewThrows(gs, playerName) ==
  \E p \in Range(gs.players) : p # playerName /\ ~HasHand(gs, p)

\* a view that hands out the session as stored
getPlayerViewUnredacted(gs, playerName) == gs

getPlayerView(gs, playerName) ==
  [ gs EXCEPT !.hands =
      [ p \in {q \in Range(gs.players) : q # playerName \/ HasHand(gs, q)} |->
          IF p = playerName THEN gs.hands[p]
          ELSE EmptySlots(Len(gs.hands[p])) ] ]

(***************************************************************************)
(* gameState.players.forEach(player => this.sendToPlayer(player,           *)
(*   {type, gameState: this.getPlayerView(gameState, player), log}))       *)
(* The view is built before sendToPlayer is entered; sendToPlayer sends    *)
(* only when this.playerId is that player.  The loop stops at the first    *)
(* player whose view throws.                                               *)
(***************************************************************************)
ViewMsg(type, gs, player, log) ==
  IF log = Null THEN [type |-> type, gameState |-> getPlayerView(gs, player)]
  ELSE [type |-> type, gameState |-> getPlayerView(gs, player), log |-> log]

RECURSIVE SendViewsFrom(_, _, _, _, _)
SendViewsFrom(i, playerId, gs, type, log) ==
  IF i > Len(gs.players) THEN [sent |-> <<>>, threw |-> FALSE]
  ELSE IF ViewThrows(gs, gs.players[i]) THEN [sent |-> <<>>, threw |-> TRUE]
  ELSE LET rest == SendViewsFrom(i + 1, playerId, gs, type, log)
           here == IF playerId = gs.players[i]
                   THEN << ViewMsg(type, gs, gs.players[i], log) >>
                   ELSE <<>>
       IN  [sent |-> here \o rest.sent, threw |-> rest.threw]

SendViews(playerId, gs, type, log) == SendViewsFrom(1, playerId, gs, type, log)

\* handleMessage's catch: an exception adds the generic error reply
Replies(r) ==
  IF r.threw THEN r.sent \o << ErrorMsg("Failed to process request") >> ELSE r.sent

(* ------------------------------- lobby --------------------------------- *)

NewGame(code, playerName) ==
  [ code         |-> code,
    players      |-> << playerName >>,
    teams        |-> [team1 |-> <<>>, team2 |-> <<>>],
    hands        |-> EmptyObj,
    currentTurn  |-> 0,
    claimedSuits |-> [team1 |-> <<>>, team2 |-> <<>>],
    host         |-> playerName,
    started      |-> FALSE ]

Init ==
  /\ games = EmptyObj
  /\ conns = [c \in Conns |-> [playerId |-> Null, gameCode |-> Null]]
  /\ outbox = <<>>
  /\ timers = EmptyObj
  /\ lastOp = [type |-> "init"]
  /\ removed = EmptyObj
  /\ deals = EmptyObj
  /\ moves = 0
  /\ endings = EmptyObj
  /\ calls = [c \in Conns |-> Idle]

\* createGame: code is what generateGameCode returned
CreateGame(c, playerName, code) ==
  /\ games' = storeGameState(code, NewGame(code, playerName))
  /\ conns' = [conns EXCEPT ![c] = [playerId |-> playerName, gameCode |-> code]]
  /\ outbox' = Sent(c, << [type |-> "gameCreated", gameCode |-> code,
                           playerName |-> playerName] >>)
  /\ removed' = (code :> <<>>) @@ removed
  /\ deals' = (code :> 0) @@ deals
  /\ endings' = (code :> 0) @@ endings
  /\ lastOp' = [type |-> "createGame", code |-> code,
                playerName |-> playerName, outcome |-> "ok"]
  /\ UNCHANGED << timers, moves, calls >>

JoinError(code, playerName) ==
  IF ~Stored(code) THEN "Game not found"
  ELSE IF Includes(getGameState(code).players, playerName) THEN "Name already taken"
  ELSE IF Len(getGameState(code).players) >= MaxPlayers THEN "Game is full"
  ELSE Null

JoinGame(c, code, playerName) ==
  LET gs  == getGameState(code)
      err == JoinError(code, playerName)
  IN  /\ lastOp' = [type |-> "joinGame", code |-> code,
                    playerName |-> playerName,
                    outcome |-> IF err = Null THEN "ok" ELSE "error"]
      /\ IF err # Null
         THEN /\ outbox' = Sent(c, << ErrorMsg(err) >>)
              /\ UNCHANGED << games, conns >>
         ELSE LET gs2 == [gs EXCEPT !.players = Append(@, playerName)]
              IN  /\ games' = storeGameState(code, gs2)
                  /\ conns' = [conns EXCEPT ![c] =
                                 [playerId |-> playerName, gameCode |-> code]]
                  /\ outbox' = Sent(c, broadcast([type |-> "playerJoined",
                                                  playerName |-> playerName,
                                                  players |-> gs2.players]))
      /\ UNCHANGED << timers, removed, deals, moves, endings, calls >>

(***************************************************************************)
(* joinGame step by step.  The handler is suspended at each of its two     *)
(* awaits, and handlers of other connections may run in between.           *)
(***************************************************************************)

\* up to `await this.getGameState(...)`: the lookup itself has run
JoinBegin(c, code, playerName) ==
  /\ calls[c] = Idle
  /\ calls' = [calls EXCEPT ![c] =
                 [pc |-> "got", code |-> code, playerName |-> playerName,
                  found |-> Stored(code),
                  held |-> IF Stored(code) THEN getGameState(code) ELSE EmptyObj]]
  /\ outbox' = <<>>
  /\ lastOp' = [type |-> "joinGame", step |-> "call", conn |-> c, code |-> code,
                playerName |-> playerName]
  /\ UNCHANGED << games, conns, timers, removed, deals, moves, endings >>

\* the session object as the handler saw it last: a copy of its own
JoinTargetCopy(c) == calls[c].held

\* gameState in the resumed handler: the object getGameState returned, which
\* is the object the store holds
JoinTarget(c) == getGameState(calls[c].code)

JoinCheck(c) ==
  IF ~calls[c].found THEN "Game not found"
  ELSE IF Includes(JoinTarget(c).players, calls[c].playerName) THEN "Name already taken"
  ELSE IF Len(JoinTarget(c).players) >= MaxPlayers THEN "Game is full"
  ELSE Null

\* from the first await to `await this.storeGameState(...)`, or to a return
JoinResume(c) ==
  LET call == calls[c]
      err  == JoinCheck(c)
  IN  /\ call.pc = "got"
      /\ lastOp' = [type |-> "joinGame", step |-> "resume", conn |-> c,
                    code |-> call.code, playerName |-> call.playerName,
                    outcome |-> IF err = Null THEN "ok" ELSE "error"]
      /\ IF err # Null
         THEN /\ outbox' = Sent(c, << ErrorMsg(err) >>)
              /\ calls' = [calls EXCEPT ![c] = Idle]
              /\ UNCHANGED games
         ELSE LET gs2 == [JoinTarget(c) EXCEPT !.players = Append(@, call.playerName)]
              IN  /\ games' = storeGameState(call.code, gs2)
                  /\ calls' = [calls EXCEPT ![c] =
                                 [call EXCEPT !.pc = "stored", !.held = gs2]]
                  /\ outbox' = <<>>
      /\ UNCHANGED << conns, timers, removed, deals, moves, endings >>

\* from the second await to the end of joinGame
JoinReturn(c) ==
  LET call == calls[c]
  IN  /\ call.pc = "stored"
      /\ conns' = [conns EXCEPT ![c] =
                     [playerId |-> call.playerName, gameCode |-> call.code]]
      /\ outbox' = Sent(c, broadcast([type |-> "playerJoined",
                                      playerName |-> call.playerName,
                                      players |-> JoinTarget(c).players]))
      /\ calls' = [calls EXCEPT ![c] = Idle]
      /\ lastOp' = [type |-> "joinGame", step |-> "return", conn |-> c,
                    code |-> call.code, playerName |-> call.playerName]
      /\ UNCHANGED << games, timers, removed, deals, moves, endings >>

\* a split into the first and the second half of the list
TeamSplitByHalves(players) ==
  [ team1 |-> Slice(players, 0, (Len(players) + 1) \div 2),
    team2 |-> Slice(players, (Len(players) + 1) \div 2, Len(players)) ]

\* the even/odd split of assignTeams
TeamSplit(players) ==
  [team1 |-> FilterParity(players, 0, 0), team2 |-> FilterParity(players, 0, 1)]

\* assignTeams: k is the outcome of the random sort, used when random is set
AssignTeams(c, code, random, k) ==
  LET gs == getGameState(code)
  IN  /\ UNCHANGED << conns, timers, removed, deals, moves, endings, calls >>
      /\ IF ~Stored(code)
         THEN /\ lastOp' = [type |-> "assignTeams", code |-> code,
                            random |-> random, outcome |-> "ignored"]
              /\ outbox' = <<>>
              /\ UNCHANGED games
         ELSE IF Len(gs.players) < MinTeamPlayers
         THEN /\ lastOp' = [type |-> "assignTeams", code |-> code,
                            random |-> random, outcome |-> "error"]
              /\ outbox' = Sent(c, << ErrorMsg("Need at least 4 players") >>)
              /\ UNCHANGED games
         ELSE LET players == IF random THEN RandomSort(gs.players, k) ELSE gs.players
                  gs2     == [gs EXCEPT !.teams = TeamSplit(players)]
              IN  /\ lastOp' = [type |-> "assignTeams", code |-> code,
                                random |-> random, outcome |-> "ok"]
                  /\ games' = storeGameState(code, gs2)
                  /\ outbox' = Sent(c, broadcast([type |-> "teamsAssigned",
                                                  teams |-> gs2.teams]))

\* the deal of startGame: floor(deck.length / players.length) cards each
DealHands(players, deck) ==
  LET cardsPerPlayer == Len(deck) \div Len(players)
  IN  [ p \in Range(players) |->
          LET i == IndexOf(players, p)
          IN  Slice(deck, i * cardsPerPlayer, (i + 1) * cardsPerPlayer) ]

\* a guard that forgets the started flag
StartIgnoredUnlessMissing(code) == ~Stored(code)

\* if (!gameState || gameState.started) return;
StartIgnored(code) == ~Stored(code) \/ getGameState(code).started

\* startGame: k is the outcome of the deck shuffle
StartGame(c, code, k) ==
  LET gs == getGameState(code)
  IN  /\ UNCHANGED << conns, timers, removed, moves, endings, calls >>
      /\ IF StartIgnored(code)
         THEN /\ lastOp' = [type |-> "startGame", code |-> code,
                            outcome |-> "ignored"]
              /\ outbox' = <<>>
              /\ UNCHANGED << games, deals >>
         ELSE LET deck == RandomSort(createDeck, k)
                  gs2  == [gs EXCEPT
                             !.hands = DealHands(gs.players, deck) @@ @,
                             !.currentTurn = 0,
                             !.started = TRUE]
                  r    == SendViews(conns[c].playerId, gs2, "gameStarted", Null)
              IN  /\ lastOp' = [type |-> "startGame", code |-> code,
                                outcome |-> "ok"]
                  /\ games' = storeGameState(code, gs2)
                  /\ deals' = [deals EXCEPT ![code] = @ + 1]
                  /\ outbox' = Sent(c, Replies(r))

(* -------------------------------- play --------------------------------- *)

CurrentPlayer(gs) == gs.players[gs.currentTurn + 1]

\* the branch of askForCard taken once both hands were read (lines 238-249)
AskResult(gs, asker, target, card) ==
  IF Includes(gs.hands[target], card)
  THEN [gs EXCEPT !.hands[target] = FilterOut(@, {card}),
                  !.hands[asker]  = Append(@, card)]
  ELSE [gs EXCEPT !.currentTurn = IndexOf(gs.players, target)]

AskForCard(c, code, target, card) ==
  LET gs    == getGameState(code)
      asker == CurrentPlayer(gs)
      op    == [type |-> "askForCard", code |-> code, conn |-> c,
                target |-> target, card |-> card]
  IN  /\ UNCHANGED << conns, timers, removed, deals, endings, calls >>
      /\ IF ~Stored(code)
         THEN /\ lastOp' = op @@ [outcome |-> "ignored"]
              /\ outbox' = <<>>
              /\ UNCHANGED << games, moves >>
         ELSE IF ~HasHand(gs, asker)
         THEN \* gameState.hands[asker] is undefined: .includes throws
              /\ lastOp' = op @@ [outcome |-> "threw"]
              /\ outbox' = Sent(c, << ErrorMsg("Failed to process request") >>)
              /\ UNCHANGED << games, moves >>
         ELSE IF Includes(gs.hands[asker], card)
         THEN /\ lastOp' = op @@ [outcome |-> "error"]
              /\ outbox' = Sent(c, << ErrorMsg("Can't ask for a card you have") >>)
              /\ UNCHANGED << games, moves >>
         ELSE IF ~HasHand(gs, target)
         THEN \* gameState.hands[target] is undefined: .includes throws
              /\ lastOp' = op @@ [outcome |-> "threw"]
              /\ outbox' = Sent(c, << ErrorMsg("Failed to process request") >>)
              /\ UNCHANGED << games, moves >>
         ELSE LET gs2 == AskResult(gs, asker, target, card)
                  log == IF Includes(gs.hands[target], card) THEN "YES" ELSE "NO"
                  r   == SendViews(conns[c].playerId, gs2, "turnUpdate", log)
              IN  /\ lastOp' = op @@ [outcome |-> log]
                  /\ games' = storeGameState(code, gs2)
                  /\ moves' = Counted(moves)
                  /\ outbox' = Sent(c, Replies(r))

(***************************************************************************)
(* makeClaim.  assignments is a sequence of [player, cards] entries in the *)
(* key order of the message's object; Object.keys / entries / values walk  *)
(* it in that order.                                                       *)
(***************************************************************************)
AsgPlayers(assignments) == [i \in 1..Len(assignments) |-> assignments[i].player]

AsgCards(assignments) == Flat([i \in 1..Len(assignments) |-> assignments[i].cards])

TeamOf(gs, p) == IF Includes(gs.teams.team1, p) THEN "team1" ELSE "team2"

Opposite(team) == IF team = "team1" THEN "team2" ELSE "team1"

\* gameState.hands[player]?.includes(card) for every assigned card
AllCorrect(gs, assignments) ==
  \A i \in 1..Len(assignments) :
    \A j \in 1..Len(assignments[i].cards) :
      /\ HasHand(gs, assignments[i].player)
      /\ Includes(gs.hands[assignments[i].player], assignments[i].cards[j])

\* a team check that looks at the first named player only
AllSameTeamAsFirst(gs, assignments) ==
  \/ Includes(gs.teams.team1, assignments[1].player)
  \/ Includes(gs.teams.team2, assignments[1].player)

AllSameTeam(gs, assignments) ==
  LET firstPlayerTeam == TeamOf(gs, assignments[1].player)
  IN  \A i \in 1..Len(assignments) :
        \/ Includes(gs.teams.team1, assignments[i].player) /\ firstPlayerTeam = "team1"
        \/ Includes(gs.teams.team2, assignments[i].player) /\ firstPlayerTeam = "team2"

(***************************************************************************)
(* Object.entries(assignments).forEach: hands[player] =                    *)
(* hands[player].filter(c => !cards.includes(c)), entry by entry; a named  *)
(* player without a hand makes .filter throw and leaves the entries before *)
(* it filtered.  taken lists the cards that left the hands.                *)
(***************************************************************************)
RECURSIVE RemoveCards(_, _)
RemoveCards(hands, assignments) ==
  IF assignments = <<>> THEN [hands |-> hands, threw |-> FALSE, taken |-> <<>>]
  ELSE LET e == Head(assignments)
       IN  IF e.player \notin DOMAIN hands
           THEN [hands |-> hands, threw |-> TRUE, taken |-> <<>>]
           ELSE LET h2   == [hands EXCEPT ![e.player] = FilterOut(@, Range(e.cards))]
                    gone == SelectSeq(hands[e.player], LAMBDA x : x \in Range(e.cards))
                    rest == RemoveCards(h2, Tail(assignments))
                IN  [hands |-> rest.hands, threw |-> rest.threw,
                     taken |-> gone \o rest.taken]

\* the validation and award of makeClaim (lines 267-321)
ClaimResult(gs, suit, assignments) ==
  LET claimer       == CurrentPlayer(gs)
      claimerTeam   == TeamOf(gs, claimer)
      suitCards     == getHalfSuits[suit]
      assignedCards == AsgCards(assignments)
      keep          == [gs |-> gs, log |-> Null, threw |-> FALSE, taken |-> <<>>]
  IN  IF Len(assignedCards) = Len(suitCards)
      THEN IF AllCorrect(gs, assignments)
           THEN IF AllSameTeam(gs, assignments)
                THEN LET rm == RemoveCards(gs.hands, assignments)
                     IN  [gs |-> [gs EXCEPT !.claimedSuits[claimerTeam] = Append(@, suit),
                                            !.hands = rm.hands],
                          log |-> "success", threw |-> rm.threw, taken |-> rm.taken]
                ELSE [keep EXCEPT
                        !.gs = [gs EXCEPT !.claimedSuits[Opposite(claimerTeam)] =
                                            Append(@, suit)],
                        !.log = "opposite"]
           ELSE [keep EXCEPT !.log = "incorrect"]
      ELSE [keep EXCEPT !.log = "incomplete"]

TotalClaimed(gs) == Len(gs.claimedSuits.team1) + Len(gs.claimedSuits.team2)

\* endGame's message
GameEnded(gs) ==
  LET t1Score == Len(gs.claimedSuits.team1)
      t2Score == Len(gs.claimedSuits.team2)
  IN  [ type |-> "gameEnded",
        winner |-> IF t1Score > t2Score THEN "Team 1"
                   ELSE IF t2Score > t1Score THEN "Team 2" ELSE "Tie",
        team1Score |-> t1Score,
        team2Score |-> t2Score ]

NextTurn(gs) == [gs EXCEPT !.currentTurn = (gs.currentTurn + 1) % Len(gs.players)]

MakeClaim(c, code, suit, assignments) ==
  LET gs == getGameState(code)
      op == [type |-> "makeClaim", code |-> code, conn |-> c,
             suit |-> suit, assignments |-> assignments]
  IN  /\ UNCHANGED << conns, deals, calls >>
      /\ IF ~Stored(code)
         THEN /\ lastOp' = op @@ [outcome |-> "ignored", ended |-> FALSE]
              /\ outbox' = <<>>
              /\ UNCHANGED << games, timers, removed, moves, endings >>
         ELSE LET res == ClaimResult(gs, suit, assignments)
              IN  /\ removed' = [removed EXCEPT ![code] = @ \o res.taken]
                  /\ moves' = Counted(moves)
                  /\ IF res.threw
                     THEN \* the exception leaves the object as mutated so far
                          /\ lastOp' = op @@ [outcome |-> "threw", ended |-> FALSE]
                          /\ games' = storeGameState(code, res.gs)
                          /\ outbox' = Sent(c, << ErrorMsg("Failed to process request") >>)
                          /\ UNCHANGED << timers, endings >>
                     ELSE IF TotalClaimed(res.gs) >= EndTotal
                     THEN \* endGame, then return: no turn advance, no store call
                          /\ lastOp' = op @@ [outcome |-> res.log, ended |-> TRUE]
                          /\ games' = storeGameState(code, res.gs)
                          /\ outbox' = Sent(c, broadcast(GameEnded(res.gs)))
                          /\ timers' = (code :> (TimersFor(code) + 1)) @@ timers
                          /\ endings' = [endings EXCEPT ![code] = Ended(@)]
                     ELSE LET gs2 == NextTurn(res.gs)
                              r   == SendViews(conns[c].playerId, gs2, "turnUpdate", res.log)
                          IN  /\ lastOp' = op @@ [outcome |-> res.log, ended |-> FALSE]
                              /\ games' = storeGameState(code, gs2)
                              /\ outbox' = Sent(c, Replies(r))
                              /\ UNCHANGED << timers, endings >>

\* deleteGameState, run by a timer that endGame set for the code
DeleteGameState(code) ==
  /\ TimersFor(code) > 0
  /\ timers' = [timers EXCEPT ![code] = @ - 1]
  /\ games' = [k \in DOMAIN games \ {code} |-> games[k]]
  /\ outbox' = <<>>
  /\ lastOp' = [type |-> "deleteGameState", code |-> code,
                outcome |-> IF Stored(code) THEN "deleted" ELSE "absent"]
  /\ UNCHANGED << conns, removed, deals, moves, endings, calls >>

(* ----------------------- the clients' messages -------------------------- *)

\* A join uses the next unused name of names, or repeats the host's name.
JoinNames(code, names) ==
  IF ~Stored(code) THEN {names[1]}
  ELSE LET gs == getGameState(code)
       IN  {gs.host} \cup {names[i] : i \in {Len(gs.players) + 1} \cap 1..Len(names)}

AskTargets(code) == IF Stored(code) THEN Range(getGameState(code).players) ELSE {AllNames[1]}

\* the first and the last card of the deck
AskCards == {createDeck[1], createDeck[Len(createDeck)]}

ClaimSuits == {HalfSuitNames[1], HalfSuitNames[2]}

\* who holds which of the cards, as a client that knows every hand would say
Located(gs, cards) ==
  LET held(p) == SelectSeq(cards, LAMBDA x : HasHand(gs, p) /\ Includes(gs.hands[p], x))
      named   == SelectSeq(gs.players, LAMBDA p : held(p) # <<>>)
  IN  [i \in 1..Len(named) |-> [player |-> named[i], cards |-> held(named[i])]]

\* all the cards put on the player whose turn it is
OnClaimer(gs, cards) == << [player |-> CurrentPlayer(gs), cards |-> cards] >>

\* one entry for every member of the claimer's team, with the cards that
\* member holds (none for a member who holds none)
Teammates(gs, cards) ==
  LET team    == gs.teams[TeamOf(gs, CurrentPlayer(gs))]
      held(p) == SelectSeq(cards, LAMBDA x : HasHand(gs, p) /\ Includes(gs.hands[p], x))
  IN  [i \in 1..Len(team) |-> [player |-> team[i], cards |-> held(team[i])]]

(***************************************************************************)
(* The assignments a client sends with a claim of suit: the true holders   *)
(* of the cards of a half-suit (the claimed one or another), the true      *)
(* holders of all its cards but the last, all six cards put on the         *)
(* claimer, and its first card named six times for its holder.             *)
(***************************************************************************)
ClaimForms(code, suit) ==
  IF ~Stored(code) THEN {<<>>}
  ELSE LET gs    == getGameState(code)
           cards == getHalfSuits[suit]
           first == Located(gs, << cards[1] >>)
       IN  {Located(gs, getHalfSuits[s2]) : s2 \in ClaimSuits}
           \cup {Located(gs, SubSeq(cards, 1, Len(cards) - 1))}
           \cup {OnClaimer(gs, cards)}
           \cup {[i \in 1..Len(first) |->
                    [player |-> first[i].player, cards |-> [j \in 1..Len(cards) |-> cards[1]]]]}

\* The host's connection sends createGame, assignTeams and startGame; the
\* second connection sends every joinGame, askForCard and makeClaim, so it is
\* bound to the player who joined last.
HostConn == 1

GuestConn == 2

Create == \E code \in Codes : ~Stored(code) /\ CreateGame(HostConn, AllNames[1], code)

Join(names) ==
  \E code \in Codes : \E name \in JoinNames(code, names) : JoinGame(GuestConn, code, name)

Assign ==
  \E code \in Codes, random \in BOOLEAN :
    \E k \in (IF random THEN Shuffles ELSE {0}) : AssignTeams(HostConn, code, random, k)

Start == \E code \in Codes, k \in Shuffles : StartGame(HostConn, code, k)

Ask ==
  \E code \in Codes : \E target \in AskTargets(code), card \in AskCards :
    moves < MaxMoves /\ AskForCard(GuestConn, code, target, card)

Claim ==
  \E code \in Codes, suit \in ClaimSuits : \E assignments \in ClaimForms(code, suit) :
    moves < MaxMoves /\ MakeClaim(GuestConn, code, suit, assignments)

\* A game of up to four players, played move by move.
Next == Create \/ Join(Names) \/ Assign \/ Start \/ Ask \/ Claim

Spec == Init /\ [][Next]_vars

\* The lobby with up to thirteen clients, and the deal.
NextLobby == Create \/ Join(AllNames) \/ Assign \/ Start

SpecLobby == Init /\ [][NextLobby]_vars

(***************************************************************************)
(* A game of up to four played to its end by claims alone.  The lobby      *)
(* messages (joins before or after the deal, teams in join order) all come *)
(* before the first claim, and claims begin once teams are assigned.  Each *)
(* claim names the first half-suit not yet on claimedSuits (the first      *)
(* half-suit again once all eight are), with its true holders or with one  *)
(* entry per member of the claimer's team.                                 *)
(***************************************************************************)
Started(code) == Stored(code) /\ getGameState(code).started

EndgameSuit(gs) ==
  IF TotalClaimed(gs) < Len(HalfSuitNames) THEN HalfSuitNames[TotalClaimed(gs) + 1]
  ELSE HalfSuitNames[1]

EndgameClaim ==
  \E code \in Codes :
    /\ Started(code)
    /\ getGameState(code).teams.team1 # <<>>
    /\ TimersFor(code) < MaxTimers
    /\ LET gs   == getGameState(code)
           suit == EndgameSuit(gs)
       IN  \E assignments \in {Located(gs, getHalfSuits[suit]),
                               Teammates(gs, getHalfSuits[suit])} :
             MakeClaim(GuestConn, code, suit, assignments)

EndgameAssign == \E code \in Codes : AssignTeams(HostConn, code, FALSE, 0)

NextEndgame ==
  \/ Create
  \/ moves = 0 /\ Join(Names)
  \/ moves = 0 /\ EndgameAssign
  \/ moves = 0 /\ Start
  \/ EndgameClaim

SpecEndgame == Init /\ [][NextEndgame]_vars

(***************************************************************************)
(* The store over several games under one code.  generateGameCode draws    *)
(* six random characters, so it may return a code that is stored or that   *)
(* pending timers still name.  Lobby messages come while the session is    *)
(* not started, claims as in a game played to its end, and a pending timer *)
(* may fire at any time.                                                   *)
(***************************************************************************)
CreateAny == \E code \in Codes : CreateGame(HostConn, AllNames[1], code)

InLobby == \A code \in Codes : ~Started(code)

TimerFires == \E code \in Codes : DeleteGameState(code)

NextStore ==
  \/ CreateAny
  \/ InLobby /\ Join(Names)
  \/ InLobby /\ EndgameAssign
  \/ InLobby /\ Start
  \/ EndgameClaim
  \/ TimerFires

SpecStore == Init /\ [][NextStore]_vars

(***************************************************************************)
(* Joins from both connections with their handlers interleaved at the      *)
(* awaits.  A join asks for the host's name or for the first name not yet  *)
(* in players, so two calls in flight may ask for the same name; for the   *)
(* second and for the last seat it may also ask for the name after that,   *)
(* so two calls in flight may ask for different names.                     *)
(***************************************************************************)
FreeNames(gs, k) ==
  LET free == SelectSeq(AllNames, LAMBDA n : ~Includes(gs.players, n))
  IN  {free[i] : i \in 1..(IF k < Len(free) THEN k ELSE Len(free))}

RaceNames(code) ==
  IF ~Stored(code) THEN {AllNames[1]}
  ELSE LET gs == getGameState(code)
       IN  {gs.host} \cup FreeNames(gs, IF Len(gs.players) \in {1, MaxPlayers - 1}
                                        THEN 2 ELSE 1)

JoinCalled ==
  \E c \in Conns, code \in Codes : \E name \in RaceNames(code) : JoinBegin(c, code, name)

JoinResumed == \E c \in Conns : JoinResume(c)

JoinReturned == \E c \in Conns : JoinReturn(c)

NextAwait == Create \/ JoinCalled \/ JoinResumed \/ JoinReturned

SpecAwait == Init /\ [][NextAwait]_vars

(* ------------------------------ properties ----------------------------- *)

Holds(gs, p, card) == HasHand(gs, p) /\ Includes(gs.hands[p], card)

\* every card in a hand, player by player
HandCards(gs) ==
  Flat([i \in 1..Len(gs.players) |->
          IF HasHand(gs, gs.players[i]) THEN gs.hands[gs.players[i]] ELSE <<>>])

NoRepeats(s) == Cardinality(Range(s)) = Len(s)

\* a started session of four or more players, each with a hand and on a team
FullTable(gs) ==
  /\ gs.started
  /\ Len(gs.players) >= MinTeamPlayers
  /\ DOMAIN gs.hands = Range(gs.players)
  /\ Range(gs.teams.team1) \cup Range(gs.teams.team2) = Range(gs.players)
  /\ Range(gs.teams.team1) \cap Range(gs.teams.team2) = {}

\* the step just taken handled a message of this type for a stored session
Handled(type) == lastOp'.type = type /\ Stored(lastOp'.code)

Before == games[lastOp'.code]

After == games'[lastOp'.code]

(* C1: in every started session the cards in the hands together with the   *)
(* cards removed by claims are the 48 cards of the deck, each exactly once. *)
C1_CardsConserved ==
  \A code \in DOMAIN games :
    games[code].started =>
      LET all == HandCards(games[code]) \o removed[code]
      IN  Len(all) = Len(createDeck) /\ Range(all) = Range(createDeck)

(* C2: no half-suit is on both teams' claimedSuits, none is there twice,    *)
(* and the two lists hold at most 8 names together (looked at in sessions   *)
(* where every player was dealt a hand and put on a team).                  *)
C2_ClaimedSuitsDisjoint ==
  \A code \in DOMAIN games :
    LET cs == games[code].claimedSuits
    IN  FullTable(games[code]) =>
        /\ Range(cs.team1) \cap Range(cs.team2) = {}
        /\ NoRepeats(cs.team1 \o cs.team2)
        /\ Len(cs.team1) + Len(cs.team2) <= EndTotal

(* C3: an askForCard on a started session whose asker does not hold the     *)
(* card moves the card from the target to the asker and keeps currentTurn   *)
(* when the target holds it, and otherwise leaves the hands alone and sets  *)
(* currentTurn to the target's index.                                       *)
C3_Step ==
  LET asker  == CurrentPlayer(Before)
      target == lastOp'.target
      card   == lastOp'.card
  IN  (Handled("askForCard") /\ Before.started /\ ~Holds(Before, asker, card)) =>
        IF Holds(Before, target, card)
        THEN /\ DOMAIN After.hands = DOMAIN Before.hands
             /\ ~Includes(After.hands[target], card)
             /\ Range(After.hands[target]) = Range(Before.hands[target]) \ {card}
             /\ HasHand(Before, asker)
             /\ Range(After.hands[asker]) = Range(Before.hands[asker]) \cup {card}
             /\ \A p \in DOMAIN Before.hands \ {asker, target} :
                  After.hands[p] = Before.hands[p]
             /\ After.currentTurn = Before.currentTurn
        ELSE /\ After.hands = Before.hands
             /\ After.currentTurn = IndexOf(Before.players, target)

C3_AskMovesCardOrPassesTurn == [][C3_Step]_vars

\* the assignments name a member of team1 and a member of team2
SpansTeams(gs, assignments) ==
  /\ \E i \in 1..Len(assignments) : Includes(gs.teams.team1, assignments[i].player)
  /\ \E i \in 1..Len(assignments) : Includes(gs.teams.team2, assignments[i].player)

\* the half-suit went to the team the claimer is not on; no hand changed
AwardedToOtherTeam ==
  LET claimer == CurrentPlayer(Before)
      own     == IF Includes(Before.teams.team1, claimer) THEN "team1" ELSE "team2"
      other   == IF own = "team1" THEN "team2" ELSE "team1"
  IN  /\ After.claimedSuits[other] = Append(Before.claimedSuits[other], lastOp'.suit)
      /\ After.claimedSuits[own] = Before.claimedSuits[own]
      /\ ~Includes(Before.teams[other], claimer)
      /\ After.hands = Before.hands

(* C4 as stated: every makeClaim whose assignments name players of both     *)
(* teams gives the half-suit to the team without the claimer and changes no *)
(* hand.                                                                    *)
C4_SpanningClaimGoesToOtherTeam ==
  [][(Handled("makeClaim") /\ SpansTeams(Before, lastOp'.assignments))
       => AwardedToOtherTeam]_vars

\* six cards are assigned in all, each to a player who holds it
SixHeldCards(gs, assignments) ==
  /\ Len(AsgCards(assignments)) = Len(getHalfSuits[lastOp'.suit])
  /\ \A i \in 1..Len(assignments) :
       \A x \in Range(assignments[i].cards) : Holds(gs, assignments[i].player, x)

(* C4 amended: every makeClaim that assigns six cards in all, each to a     *)
(* player who holds it, and names players of both teams gives the half-suit *)
(* to the team without the claimer and changes no hand.                     *)
C4_ValidSpanningClaimGoesToOtherTeam ==
  [][(Handled("makeClaim") /\ SpansTeams(Before, lastOp'.assignments)
        /\ SixHeldCards(Before, lastOp'.assignments))
       => AwardedToOtherTeam]_vars

C4_Witness ==
  /\ lastOp.type = "makeClaim"
  /\ lastOp.outcome = "opposite"
  /\ Stored(lastOp.code)
  /\ SpansTeams(games[lastOp.code], lastOp.assignments)
  /\ Len(lastOp.assignments) >= 2
  /\ games[lastOp.code].claimedSuits.team1 \o games[lastOp.code].claimedSuits.team2
       = << lastOp.suit >>

(* C5: a makeClaim whose assigned cards, as a set, are not the six cards of *)
(* the named half-suit adds nothing to claimedSuits, changes no hand and    *)
(* advances currentTurn by one, modulo the number of players (looked at in  *)
(* sessions where every player was dealt a hand and put on a team).         *)
C5_WrongCardsClaimOnlyPassesTurn ==
  [][(Handled("makeClaim") /\ FullTable(Before)
        /\ Range(AsgCards(lastOp'.assignments)) # Range(getHalfSuits[lastOp'.suit]))
       => /\ After.claimedSuits = Before.claimedSuits
          /\ After.hands = Before.hands
          /\ After.currentTurn = (Before.currentTurn + 1) % Len(Before.players)]_vars

\* the same session with other cards, as many, in the hands of everyone but a
OtherHands(gs, a) ==
  { [gs EXCEPT !.hands =
       [p \in DOMAIN gs.hands |->
          IF p = a THEN gs.hands[p]
          ELSE [i \in 1..Len(gs.hands[p]) |->
                  createDeck[((i + k) % Len(createDeck)) + 1]]]] : k \in 0..2 }

IsCard(x) == x \in Range(createDeck)

(* C6: every gameStarted and turnUpdate message carries the view of the     *)
(* player bound to the connection it is sent on: that player's own hand,    *)
(* and for every other player as many empty slots as cards and no card; the *)
(* view is the same for every session that differs only in the cards the    *)
(* other players hold.                                                      *)
C6_ViewsShowOnlySizes ==
  \A i \in 1..Len(outbox) :
    outbox[i].msg.type \in {"gameStarted", "turnUpdate"} =>
      LET a    == conns[outbox[i].to].playerId
          gs   == games[lastOp.code]
          view == outbox[i].msg.gameState
      IN  /\ DOMAIN view.hands = Range(gs.players)
          /\ view.hands[a] = gs.hands[a]
          /\ \A p \in DOMAIN view.hands \ {a} :
               /\ Len(view.hands[p]) = Len(gs.hands[p])
               /\ \A j \in 1..Len(view.hands[p]) : ~IsCard(view.hands[p][j])
          /\ \A gs2 \in OtherHands(gs, a) : getPlayerView(gs2, a) = view

C6_Witness ==
  \E i \in 1..Len(outbox) :
    /\ outbox[i].msg.type = "turnUpdate"
    /\ LET a    == conns[outbox[i].to].playerId
           view == outbox[i].msg.gameState
       IN  /\ \E j \in 1..Len(view.hands[a]) : IsCard(view.hands[a][j])
           /\ Cardinality(DOMAIN view.hands) >= MinTeamPlayers
           /\ \A p \in DOMAIN view.hands \ {a} : Len(view.hands[p]) > 0
           /\ \E p \in DOMAIN view.hands \ {a} :
                games[lastOp.code].hands[p] # view.hands[p]

(* C7: a startGame on a started session changes nothing and sends nothing,  *)
(* and every session is dealt once when it is started and never otherwise.  *)
C7_DealtOnce ==
  \A code \in DOMAIN games : deals[code] = IF games[code].started THEN 1 ELSE 0

C7_StartGameIdempotent ==
  /\ []C7_DealtOnce
  /\ [][(Handled("startGame") /\ Before.started)
          => /\ games' = games
             /\ conns' = conns
             /\ timers' = timers
             /\ outbox' = <<>>]_vars

C7_Witness ==
  /\ lastOp.type = "startGame"
  /\ lastOp.outcome = "ignored"
  /\ Started(lastOp.code)
  /\ moves > 0
  /\ outbox = <<>>

(* C8: joinGame on a started session is answered with an error and leaves   *)
(* players as it was.                                                       *)
C8_NoJoinAfterStart ==
  [][(Handled("joinGame") /\ Before.started)
       => /\ lastOp'.outcome = "error"
          /\ After.players = Before.players]_vars

\* the gameEnded message for the scores the session has after the step
ExpectedGameEnded ==
  LET s1 == Len(After.claimedSuits.team1)
      s2 == Len(After.claimedSuits.team2)
  IN  [ type |-> "gameEnded",
        winner |-> CASE s1 > s2 -> "Team 1" [] s2 > s1 -> "Team 2" [] OTHER -> "Tie",
        team1Score |-> s1,
        team2Score |-> s2 ]

(* C9: the makeClaim that brings the number of claimed half-suits to 8      *)
(* sends gameEnded with the two counts as scores and the team with more as  *)
(* winner (Tie when equal), and does not advance currentTurn.               *)
C9_EighthClaimEndsGame ==
  [][(Handled("makeClaim") /\ TotalClaimed(Before) < EndTotal
        /\ TotalClaimed(After) = EndTotal)
       => /\ \E i \in 1..Len(outbox') : outbox'[i].msg = ExpectedGameEnded
          /\ After.currentTurn = Before.currentTurn]_vars

\* the players at the even (r = 0) or odd (r = 1) 0-based positions of s
AtParity(s, r) ==
  LET idx == {i \in 1..Len(s) : (i - 1) % 2 = r}
      pos(n) == CHOOSE i \in idx : Cardinality({j \in idx : j < i}) = n - 1
  IN  [n \in 1..Cardinality(idx) |-> s[pos(n)]]

SizesBalanced(teams) ==
  /\ Len(teams.team1) - Len(teams.team2) <= 1
  /\ Len(teams.team2) - Len(teams.team1) <= 1

(* C10: assignTeams with fewer than 4 players is answered with an error and *)
(* leaves teams as they were; with 4 to 12 players and random unset, team1  *)
(* is the players at even join positions and team2 those at odd positions,  *)
(* in join order; with random set the two teams still split the players     *)
(* between them; either way the team sizes differ by at most 1.             *)
C10_AssignTeamsSplitsEvenly ==
  [][Handled("assignTeams") =>
       IF Len(Before.players) < MinTeamPlayers
       THEN /\ lastOp'.outcome = "error"
            /\ After = Before
            /\ \E i \in 1..Len(outbox') : outbox'[i].msg.type = "error"
       ELSE /\ Len(Before.players) <= MaxPlayers
            /\ SizesBalanced(After.teams)
            /\ NoRepeats(After.teams.team1 \o After.teams.team2)
            /\ Range(After.teams.team1) \cup Range(After.teams.team2)
                 = Range(Before.players)
            /\ ~lastOp'.random =>
                 /\ After.teams.team1 = AtParity(Before.players, 0)
                 /\ After.teams.team2 = AtParity(Before.players, 1)]_vars

C10_Witness ==
  /\ lastOp.type = "assignTeams"
  /\ lastOp.outcome = "ok"
  /\ lastOp.random
  /\ Len(games[lastOp.code].players) = MaxPlayers - 1
  /\ games[lastOp.code].teams.team1 # AtParity(games[lastOp.code].players, 0)
  /\ Len(games[lastOp.code].teams.team1) = Len(games[lastOp.code].teams.team2) + 1

\* the connections bound to a player of the session the step was about
Listeners ==
  {c \in Conns : /\ conns'[c].gameCode = lastOp'.code
                 /\ Includes(After.players, conns'[c].playerId)}

Hears(c, type) == \E i \in 1..Len(outbox') : outbox'[i].to = c /\ outbox'[i].msg.type = type

HearsView(c) ==
  \E i \in 1..Len(outbox') :
    /\ outbox'[i].to = c
    /\ outbox'[i].msg.type = "turnUpdate"
    /\ (HasHand(After, conns'[c].playerId) /\ ~ViewThrows(After, conns'[c].playerId))
         => outbox'[i].msg.gameState = getPlayerView(After, conns'[c].playerId)

(* C11: an accepted joinGame, a successful assignTeams and a makeClaim that *)
(* ends the game reach every connection bound to a player of the session    *)
(* with playerJoined, teamsAssigned and gameEnded, and any other askForCard  *)
(* or makeClaim that changes the session gives each of them a turnUpdate     *)
(* with that player's own view.                                              *)
C11_EveryConnectionHears ==
  [][\A c \in Conns :
       /\ (Handled("joinGame") /\ lastOp'.outcome = "ok" /\ c \in Listeners)
            => Hears(c, "playerJoined")
       /\ (Handled("assignTeams") /\ lastOp'.outcome = "ok" /\ c \in Listeners)
            => Hears(c, "teamsAssigned")
       /\ (Handled("makeClaim") /\ lastOp'.ended /\ c \in Listeners)
            => Hears(c, "gameEnded")
       /\ (Handled("makeClaim") /\ ~lastOp'.ended /\ After # Before /\ c \in Listeners)
            => HearsView(c)
       /\ (Handled("askForCard") /\ After # Before /\ c \in Listeners)
            => HearsView(c)]_vars

(* C12: a createGame leaves every session that was stored before it stored  *)
(* and unchanged.                                                           *)
C12_CreateKeepsStoredSessions ==
  [][lastOp'.type = "createGame" =>
       \A code \in DOMAIN games :
         code \in DOMAIN games' /\ games'[code] = games[code]]_vars

(* C13: a session leaves the store only when a deletion timer fires, and    *)
(* only after gameEnded was sent for that session.                          *)
C13_OnlyEndedSessionsDeleted ==
  [][\A code \in DOMAIN games :
       code \notin DOMAIN games' =>
         lastOp'.type = "deleteGameState" /\ endings[code] > 0]_vars

OnATeam(gs, p) == Includes(gs.teams.team1, p) \/ Includes(gs.teams.team2, p)

(* C14: in every started session the player at currentTurn is a member of  *)
(* team1 or of team2, because startGame starts only sessions whose teams    *)
(* were assigned.                                                           *)
C14_StartedHasTeams ==
  \A code \in DOMAIN games :
    games[code].started => OnATeam(games[code], CurrentPlayer(games[code]))

(* C15: once teams are assigned, team1 and team2 are disjoint and together  *)
(* hold exactly the joined players, also after later joins (looked at in    *)
(* sessions that are not started).                                          *)
C15_TeamsPartitionPlayers ==
  \A code \in DOMAIN games :
    LET gs == games[code]
    IN  (~gs.started /\ gs.teams.team1 # <<>>) =>
          /\ Range(gs.teams.team1) \cap Range(gs.teams.team2) = {}
          /\ Range(gs.teams.team1) \cup Range(gs.teams.team2) = Range(gs.players)

(* C17: a message answered with an error leaves every stored session as it  *)
(* was, and the error goes to the connection that sent the message.         *)
C17_ErrorsChangeNothing ==
  [][(\E i \in 1..Len(outbox') : outbox'[i].msg.type = "error") =>
       /\ games' = games
       /\ lastOp'.type \in {"askForCard", "makeClaim"} =>
            \A i \in 1..Len(outbox') : outbox'[i].to = lastOp'.conn]_vars

\* the step put the half-suit on the list of the claimer's team and took
\* the assigned cards out of the hands
AwardedToOwnTeam ==
  LET own == TeamOf(Before, CurrentPlayer(Before))
  IN  /\ After.claimedSuits[own] = Append(Before.claimedSuits[own], lastOp'.suit)
      /\ \A i \in 1..Len(lastOp'.assignments) :
           \A x \in Range(lastOp'.assignments[i].cards) :
             ~Holds(After, lastOp'.assignments[i].player, x)

(* C18: whenever makeClaim awards the half-suit to the claimer's own team   *)
(* and removes the assigned cards, every player named in assignments is on  *)
(* the claimer's team (looked at in sessions where every player was dealt a *)
(* hand and put on a team, for claims that assign the six cards of the      *)
(* half-suit once each).                                                    *)
C18_OwnTeamAwardNamesOwnTeam ==
  [][(Handled("makeClaim") /\ FullTable(Before) /\ AwardedToOwnTeam
        /\ Len(AsgCards(lastOp'.assignments)) = Len(getHalfSuits[lastOp'.suit])
        /\ Range(AsgCards(lastOp'.assignments)) = Range(getHalfSuits[lastOp'.suit])) =>
       \A i \in 1..Len(lastOp'.assignments) :
         Includes(Before.teams[TeamOf(Before, CurrentPlayer(Before))],
                  lastOp'.assignments[i].player)]_vars

PlayChanged ==
  \/ After.hands # Before.hands
  \/ After.currentTurn # Before.currentTurn
  \/ After.claimedSuits # Before.claimedSuits

(* C19: an askForCard or makeClaim changes hands, currentTurn or            *)
(* claimedSuits of a session only when the connection that sent it is bound *)
(* to that session and to its player at currentTurn (looked at in sessions  *)
(* where every player was dealt a hand and put on a team).                  *)
C19_OnlyCurrentPlayerActs ==
  [][((Handled("askForCard") \/ Handled("makeClaim"))
        /\ FullTable(Before) /\ PlayChanged) =>
       /\ conns[lastOp'.conn].gameCode = lastOp'.code
       /\ conns[lastOp'.conn].playerId = CurrentPlayer(Before)]_vars

(* C20: once gameEnded was sent for a session, no message changes the       *)
(* session, no further gameEnded is sent for it and no further deletion     *)
(* timer is set for it.                                                     *)
C20_EndedIsTerminal ==
  [][\A code \in DOMAIN games :
       (endings[code] > 0 /\ code \in DOMAIN games') =>
         /\ games'[code] = games[code]
         /\ endings'[code] = endings[code]
         /\ TimersFor(code)' <= TimersFor(code)]_vars

\* the session with one more player at the end of players
Joined(gs, name) == [gs EXCEPT !.players = Append(@, name)]

\* a step of a joinGame handler acts as the whole joinGame would, run alone
\* at the moment the handler resumes after its first await
C16_Step ==
  LET c    == lastOp'.conn
      code == lastOp'.code
      name == lastOp'.playerName
  IN  lastOp'.type = "joinGame" =>
        CASE lastOp'.step = "call" -> games' = games
          [] lastOp'.step = "resume" ->
               IF calls[c].found /\ JoinError(code, name) = Null
               THEN /\ lastOp'.outcome = "ok"
                    /\ games' = (code :> Joined(games[code], name)) @@ games
               ELSE /\ lastOp'.outcome = "error"
                    /\ games' = games
                    /\ \E i \in 1..Len(outbox') :
                         outbox'[i].to = c /\ outbox'[i].msg.type = "error"
          [] lastOp'.step = "return" ->
               /\ games' = games
               /\ Includes(games[code].players, name)
               /\ \E i \in 1..Len(outbox') :
                    /\ outbox'[i].to = c
                    /\ outbox'[i].msg.type = "playerJoined"
                    /\ outbox'[i].msg.players = games[code].players

C16_PlayersSound ==
  \A code \in DOMAIN games :
    /\ NoRepeats(games[code].players)
    /\ Len(games[code].players) <= MaxPlayers
    /\ \A c \in Conns :
         (calls[c].pc = "stored" /\ calls[c].code = code)
           => Includes(games[code].players, calls[c].playerName)

(* C16: joinGame handlers of different connections interleaved at their    *)
(* awaits act as the same requests handled one after the other: each takes  *)
(* effect as a whole when it resumes after its first await, an accepted     *)
(* name is appended and stays, a name already in players is rejected with   *)
(* players unchanged, and players never holds a name twice nor more than 12 *)
(* names.                                                                   *)
C16_JoinsSerialize == []C16_PlayersSound /\ [][C16_Step]_vars

\* two joins in flight for the last seat: one has taken it, the other was
\* called when the seat was still free and has yet to resume
C16_Witness ==
  \E c1, c2 \in Conns, code \in DOMAIN games :
    /\ c1 # c2
    /\ calls[c1].pc = "got" /\ calls[c1].code = code /\ calls[c1].found
    /\ Len(calls[c1].held.players) = MaxPlayers - 1
    /\ calls[c2].pc = "stored" /\ calls[c2].code = code
    /\ Len(calls[c2].held.players) = MaxPlayers
    /\ calls[c1].playerName # calls[c2].playerName
    /\ ~Includes(games[code].players, calls[c1].playerName)
    /\ Len(games[code].players) = MaxPlayers

=============================================================================
